---- MODULE Spec2Model ----
(***************************************************************************)
(* Inventario Tecnirecargas: the product store (lib/database in its four   *)
(* versions: JSON file, process memory, Vercel KV, Supabase) and the HTTP  *)
(* handlers of /api/productos and /api/productos/[id] that call it.        *)
(*                                                                         *)
(* Numbers are JavaScript numbers.  The model keeps them in fixed point    *)
(* with denominator 2: the numeral n stands for n / 2, so that 4 is the    *)
(* integer 2 and 1 is the non-integer 0.5.                                 *)
(* Strings are sequences of one-character strings.                         *)
(***************************************************************************)
EXTENDS Integers, Sequences, FiniteSets, TLC

\* ---------------------------------------------------------------- bounds
MaxProductos == 2
MaxInventario == 2

VARIABLES
  variante,             \* which version of lib/database is deployed
  nodeEnv,              \* process.env.NODE_ENV
  kvConfigurado,        \* KV_REST_API_URL && KV_REST_API_TOKEN
  supabaseConfigurado,  \* NEXT_PUBLIC_SUPABASE_URL && NEXT_PUBLIC_SUPABASE_ANON_KEY
  concurrente,          \* may requests overlap at their await points
  colisiones,           \* may the id generator repeat an identifier
  archivo,              \* data/products.json
  productosEnMemoria,   \* module-level array of the memory version
  kvValor,              \* value under CLAVE_PRODUCTOS
  tabla,                \* rows of TABLA_PRODUCTOS
  generados,            \* number of identifiers generated so far
  pend,                 \* per request slot: what is suspended at an await
  elegido,              \* the branch the first storage access took
  modal,                \* ModalInventario: its props and its useState values
  enVuelo               \* PATCH requests the modal sent, not yet answered

vars == <<variante, nodeEnv, kvConfigurado, supabaseConfigurado, concurrente,
          colisiones, archivo, productosEnMemoria, kvValor, tabla, generados,
          pend, elegido, modal, enVuelo>>

\* the browser page
navegador == <<modal, enVuelo>>

config == <<variante, nodeEnv, kvConfigurado, supabaseConfigurado, concurrente,
            colisiones>>

Procs == {1, 2}
Ids == 1..MaxProductos

\* ------------------------------------------------------------ JSON values
Undefined == [t |-> "undefined", s |-> <<>>, n |-> 0]
Str(s) == [t |-> "string", s |-> s, n |-> 0]
Num(n) == [t |-> "number", s |-> <<>>, n |-> n]

\* typeof v
Typeof(v) == v.t

\* !v
Falsy(v) ==
  \/ v.t = "undefined"
  \/ v.t = "string" /\ v.s = <<>>
  \/ v.t = "number" /\ v.n = 0

EsEntero(n) == n % 2 = 0

Entero(k) == k * 2

\* String.prototype.trim
RECURSIVE TrimIzq(_)
TrimIzq(s) == IF s # <<>> /\ Head(s) = " " THEN TrimIzq(Tail(s)) ELSE s

RECURSIVE TrimDer(_)
TrimDer(s) ==
  IF s # <<>> /\ s[Len(s)] = " " THEN TrimDer(SubSeq(s, 1, Len(s) - 1)) ELSE s

Trim(s) == TrimDer(TrimIzq(s))

\* --------------------------------------------------------------- Producto
Producto(id, nombre, marca, inv) ==
  [id |-> id, nombre |-> nombre, marca |-> marca, inventarioActual |-> inv]

IdsDe(ps) == {ps[i].id : i \in 1..Len(ps)}

\* Array.prototype.findIndex(p => p.id === id), 1-based, 0 for -1
IndiceDe(ps, id) ==
  IF \E i \in 1..Len(ps) : ps[i].id = id
  THEN CHOOSE i \in 1..Len(ps) :
         /\ ps[i].id = id
         /\ \A j \in 1..(i - 1) : ps[j].id # id
  ELSE 0

\* productos.splice(indice, 1)
Splice(ps, i) == SubSeq(ps, 1, i - 1) \o SubSeq(ps, i + 1, Len(ps))

\* inventarioActual += cantidad; if (inventarioActual < 0) inventarioActual = 0
SumarSinPiso(inv, cantidad) == inv + cantidad

SumarYRecortar(inv, cantidad) ==
  IF inv + cantidad < 0 THEN 0 ELSE inv + cantidad

\* Math.max(0, producto.inventarioActual + cantidad)
MathMaxSinCero(inv, cantidad) == inv + cantidad

MathMax0(inv, cantidad) ==
  IF 0 >= inv + cantidad THEN 0 ELSE inv + cantidad

ConInventarioSinNombre(p, inv) ==
  [p EXCEPT !.inventarioActual = inv, !.nombre = <<>>]

ConInventario(p, inv) == [p EXCEPT !.inventarioActual = inv]

\* ----------------------------------------------------------------- stores
Almacenes ==
  [archivo |-> archivo, memoria |-> productosEnMemoria, kv |-> kvValor,
   tabla |-> tabla]

RECURSIVE OrdenarPorIdDescendente(_)
OrdenarPorIdDescendente(filas) ==
  IF filas = {} THEN <<>>
  ELSE LET f == CHOOSE x \in filas : \A y \in filas : x.id >= y.id
       IN <<f>> \o OrdenarPorIdDescendente(filas \ {f})

\* .order('id', { ascending: true })
RECURSIVE OrdenarPorId(_)
OrdenarPorId(filas) ==
  IF filas = {} THEN <<>>
  ELSE LET f == CHOOSE x \in filas : \A y \in filas : x.id <= y.id
       IN <<f>> \o OrdenarPorId(filas \ {f})

\* which branch of the deployed version runs
modo ==
  CASE variante = "archivo" -> "archivo"
    [] variante = "memoria" -> "memoria"
    [] variante = "kv" -> IF kvConfigurado THEN "kv" ELSE "respaldo"
    [] variante = "supabase" -> IF supabaseConfigurado THEN "supabase" ELSE "respaldo"

\* fs.existsSync / readFileSync / JSON.parse guarded by NODE_ENV
leerDesdeArchivo(S, falla) ==
  IF nodeEnv = "development" /\ ~falla THEN S.archivo ELSE <<>>

\* writeFileSync guarded by NODE_ENV; a failure is only logged
guardarEnArchivo(S, ps, falla) ==
  IF nodeEnv = "development" /\ ~falla THEN [S EXCEPT !.archivo = ps] ELSE S

\* leerProductos(): the array the call returns and the stores after it
leerProductosSinFallo(S, falla) ==
  CASE modo = "archivo" -> [ps |-> S.archivo, S |-> S]
    [] modo = "memoria" ->
         LET m == IF S.memoria = <<>> THEN leerDesdeArchivo(S, FALSE)
                  ELSE S.memoria
         IN [ps |-> m, S |-> [S EXCEPT !.memoria = m]]
    [] modo = "kv" -> [ps |-> S.kv, S |-> S]
    [] modo = "supabase" -> [ps |-> OrdenarPorId(S.tabla), S |-> S]
    [] modo = "respaldo" -> [ps |-> leerDesdeArchivo(S, FALSE), S |-> S]

leerProductos(S, falla) ==
  CASE modo = "archivo" ->
         [ps |-> IF falla THEN <<>> ELSE S.archivo, S |-> S]
    [] modo = "memoria" ->
         LET m == IF S.memoria = <<>> THEN leerDesdeArchivo(S, falla)
                  ELSE S.memoria
         IN [ps |-> m, S |-> [S EXCEPT !.memoria = m]]
    [] modo = "kv" ->
         [ps |-> IF falla THEN <<>> ELSE S.kv, S |-> S]
    [] modo = "supabase" ->
         [ps |-> IF falla THEN <<>> ELSE OrdenarPorId(S.tabla), S |-> S]
    [] modo = "respaldo" ->
         [ps |-> leerDesdeArchivo(S, falla), S |-> S]

\* .delete().neq('id', ''): a failure leaves the rows and is only logged
borrarNada(S, falla) == S

borrarTodo(S, falla) == IF falla THEN S ELSE [S EXCEPT !.tabla = {}]

\* .insert(productos): refused as a whole on a backend failure, a repeated
\* id or a stock that does not fit the column
insertarTodo(S, ps, falla) ==
  LET nuevas == {ps[i] : i \in 1..Len(ps)}
      rechazado ==
        \/ falla
        \/ \E i \in 1..Len(ps), j \in 1..Len(ps) : i # j /\ ps[i].id = ps[j].id
        \/ \E f \in S.tabla, g \in nuevas : f.id = g.id
        \/ \E g \in nuevas : ~EsEntero(g.inventarioActual)
  IN IF rechazado THEN [S |-> S, error |-> TRUE]
     ELSE [S |-> [S EXCEPT !.tabla = @ \cup nuevas], error |-> FALSE]

\* guardarProductosEnSupabase with a client: delete every row (a failure is
\* only logged), then insert the array (a failure throws)
guardarProductosEnSupabase(S, ps, fallaDelete, fallaInsert) ==
  LET S1 == borrarTodo(S, fallaDelete)
  IN IF ps # <<>> THEN insertarTodo(S1, ps, fallaInsert)
     ELSE [S |-> S1, error |-> FALSE]

\* guardarProductos(ps): the stores after it and whether it threw
guardarProductosSinReemplazo(S, ps, falla) ==
  CASE modo = "archivo" ->
         IF falla THEN [S |-> S, error |-> TRUE]
         ELSE [S |-> [S EXCEPT !.archivo = ps], error |-> FALSE]
    [] modo = "memoria" ->
         [S |-> guardarEnArchivo([S EXCEPT !.memoria = ps], ps, falla),
          error |-> FALSE]
    [] modo = "kv" ->
         IF falla THEN [S |-> S, error |-> TRUE]
         ELSE [S |-> [S EXCEPT !.kv = IF @ = <<>> THEN ps ELSE @],
               error |-> FALSE]
    [] modo = "supabase" -> guardarProductosEnSupabase(S, ps, FALSE, falla)
    [] modo = "respaldo" ->
         [S |-> guardarEnArchivo(S, ps, falla), error |-> FALSE]

guardarProductos(S, ps, falla) ==
  CASE modo = "archivo" ->
         IF falla THEN [S |-> S, error |-> TRUE]
         ELSE [S |-> [S EXCEPT !.archivo = ps], error |-> FALSE]
    [] modo = "memoria" ->
         [S |-> guardarEnArchivo([S EXCEPT !.memoria = ps], ps, falla),
          error |-> FALSE]
    [] modo = "kv" ->
         IF falla THEN [S |-> S, error |-> TRUE]
         ELSE [S |-> [S EXCEPT !.kv = ps], error |-> FALSE]
    [] modo = "supabase" -> guardarProductosEnSupabase(S, ps, FALSE, falla)
    [] modo = "respaldo" ->
         [S |-> guardarEnArchivo(S, ps, falla), error |-> FALSE]

\* what a read of the whole collection that does not fail returns
Leer(S) == leerProductos(S, FALSE).ps

Almacen == Leer(Almacenes)

\* ------------------------------------------------------- service results
Ret(tipo, valor) == [tipo |-> tipo, valor |-> valor]

\* a call of lib/database either returns at once or is suspended at an await
Fin(S, ret) ==
  [S |-> S, fin |-> TRUE, ret |-> ret, espera |-> "libre", productos |-> <<>>,
   id |-> 0, nuevoInventario |-> 0]

EsperaGuardar(S, ps, ret) ==
  [S |-> S, fin |-> FALSE, ret |-> ret, espera |-> "guardar", productos |-> ps,
   id |-> 0, nuevoInventario |-> 0]

EsperaUpdate(S, id, inv) ==
  [S |-> S, fin |-> FALSE, ret |-> Ret("null", <<>>), espera |-> "update",
   productos |-> <<>>, id |-> id, nuevoInventario |-> inv]

FilasCon(S, id) == {f \in S.tabla : f.id = id}

\* crearProducto up to its first write
crearProductoSinError(S, id, nombre, marca, inventarioInicial, falla) ==
  LET nuevoProducto == Producto(id, nombre, marca, inventarioInicial)
  IN IF modo = "supabase"
     THEN Fin([S EXCEPT !.tabla = @ \cup {nuevoProducto}],
              Ret("producto", <<nuevoProducto>>))
     ELSE LET r == leerProductos(S, falla)
          IN EsperaGuardar(r.S, Append(r.ps, nuevoProducto),
                           Ret("producto", <<nuevoProducto>>))

crearProducto(S, id, nombre, marca, inventarioInicial, falla) ==
  LET nuevoProducto == Producto(id, nombre, marca, inventarioInicial)
  IN IF modo = "supabase"
     THEN IF falla \/ FilasCon(S, id) # {} \/ ~EsEntero(inventarioInicial)
          THEN Fin(S, Ret("throw", <<>>))
          ELSE Fin([S EXCEPT !.tabla = @ \cup {nuevoProducto}],
                   Ret("producto", <<nuevoProducto>>))
     ELSE LET r == leerProductos(S, falla)
          IN EsperaGuardar(r.S, Append(r.ps, nuevoProducto),
                           Ret("producto", <<nuevoProducto>>))

\* actualizarInventario up to its write
actualizarInventarioCreando(S, id, cantidad, falla) ==
  IF modo = "supabase"
  THEN IF FilasCon(S, id) # {} THEN Fin(S, Ret("null", <<>>))
       ELSE Fin([S EXCEPT !.tabla = @ \cup {Producto(id, <<>>, <<>>, 0)}],
                Ret("null", <<>>))
  ELSE LET r == leerProductos(S, falla)
       IN IF IndiceDe(r.ps, id) # 0 THEN Fin(r.S, Ret("null", <<>>))
          ELSE EsperaGuardar(r.S, Append(r.ps, Producto(id, <<>>, <<>>, 0)),
                             Ret("null", <<>>))

actualizarInventario(S, id, cantidad, falla) ==
  IF modo = "supabase"
  THEN IF falla \/ FilasCon(S, id) = {}
       THEN Fin(S, Ret("null", <<>>))
       ELSE LET producto == CHOOSE f \in FilasCon(S, id) : TRUE
            IN EsperaUpdate(S, id, MathMax0(producto.inventarioActual, cantidad))
  ELSE LET r == leerProductos(S, falla)
           indice == IndiceDe(r.ps, id)
       IN IF indice = 0
          THEN Fin(r.S, Ret("null", <<>>))
          ELSE LET p == ConInventario(r.ps[indice],
                          SumarYRecortar(r.ps[indice].inventarioActual, cantidad))
               IN EsperaGuardar(r.S, [r.ps EXCEPT ![indice] = p],
                                Ret("producto", <<p>>))

\* eliminarProducto up to its write
eliminarProducto(S, id, falla) ==
  IF modo = "supabase"
  THEN IF falla
       THEN Fin(S, Ret("false", <<>>))
       ELSE Fin([S EXCEPT !.tabla = @ \ FilasCon(S, id)], Ret("true", <<>>))
  ELSE LET r == leerProductos(S, falla)
           indice == IndiceDe(r.ps, id)
       IN IF indice = 0
          THEN Fin(r.S, Ret("false", <<>>))
          ELSE EsperaGuardar(r.S, Splice(r.ps, indice), Ret("true", <<>>))

\* obtenerProductoPorId
obtenerProductoPorId(S, id, falla) ==
  IF modo = "supabase"
  THEN IF falla \/ FilasCon(S, id) = {}
       THEN Fin(S, Ret("null", <<>>))
       ELSE Fin(S, Ret("producto", <<CHOOSE f \in FilasCon(S, id) : TRUE>>))
  ELSE LET r == leerProductos(S, falla)
           indice == IndiceDe(r.ps, id)
       IN IF indice = 0
          THEN Fin(r.S, Ret("null", <<>>))
          ELSE Fin(r.S, Ret("producto", <<r.ps[indice]>>))

\* the resumption after the await: guardarProductos, or the update statement
Reanudar(S, pd, falla) ==
  IF pd.espera = "guardar"
  THEN LET g == guardarProductos(S, pd.productos, falla)
       IN [S |-> g.S, ret |-> IF g.error THEN Ret("throw", <<>>) ELSE pd.ret]
  ELSE IF falla \/ FilasCon(S, pd.id) = {} \/ ~EsEntero(pd.nuevoInventario)
       THEN [S |-> S, ret |-> Ret("null", <<>>)]
       ELSE LET f == CHOOSE x \in FilasCon(S, pd.id) : TRUE
                g == ConInventario(f, pd.nuevoInventario)
            IN [S |-> [S EXCEPT !.tabla = (@ \ {f}) \cup {g}],
                ret |-> Ret("producto", <<g>>)]

\* ------------------------------------------------------------- requests
Nombres == {Undefined, Str(<<>>), Str(<<" ">>), Str(<<"L">>)}

Marcas == {Str(<<>>), Str(<<" ">>), Str(<<"D">>)}

Inventarios ==
  {Undefined, Str(<<"1">>)} \cup {Num(n) : n \in (-2)..Entero(MaxInventario)}

CuerpoNormal(b) ==
  /\ b.nombre = Str(<<"L">>)
  /\ b.marca = Str(<<"D">>)
  /\ b.inventarioInicial.t = "number"
  /\ b.inventarioInicial.n >= 0
  /\ EsEntero(b.inventarioInicial.n)

\* request bodies: a plain body with at most one field out of the ordinary
Cuerpos ==
  {b \in [nombre : Nombres, marca : Marcas, inventarioInicial : Inventarios] :
     \E c \in {"nombre", "marca", "inventarioInicial"} :
        \E n \in [nombre : Nombres, marca : Marcas,
                  inventarioInicial : Inventarios] :
           CuerpoNormal(n) /\ \A d \in DOMAIN b : d # c => b[d] = n[d]}

CuerposPlanos == {b \in Cuerpos : CuerpoNormal(b)}

Cantidades ==
  {Undefined, Str(<<"1">>)}
    \cup {Num(n) : n \in {-Entero(MaxInventario + 1), -2, -1, 0, 1, 2}}

CantidadesEnteras == {c \in Cantidades : c.t = "number" /\ EsEntero(c.n)}

\* what the backend does to a request: it answers, or the first call the
\* service makes to it fails, or the second one does
Fallas == {"ninguna", "lectura", "escritura"}

\* the two checks of POST /api/productos before it calls crearProducto
ValidarPOSTSinSigno(body) ==
  IF Falsy(body.nombre) \/ Falsy(body.marca)
       \/ body.inventarioInicial = Undefined
  THEN "faltan"
  ELSE IF Typeof(body.inventarioInicial) # "number" THEN "inventario" ELSE "ok"

ValidarPOST(body) ==
  IF Falsy(body.nombre) \/ Falsy(body.marca)
       \/ body.inventarioInicial = Undefined
  THEN "faltan"
  ELSE IF Typeof(body.inventarioInicial) # "number"
            \/ body.inventarioInicial.n < 0
       THEN "inventario"
       ELSE "ok"

\* the check of PATCH /api/productos/[id] before it calls actualizarInventario
ValidarPATCH(cantidad) ==
  IF cantidad = Undefined \/ Typeof(cantidad) # "number" THEN "cantidad" ELSE "ok"

\* the status code the handler answers with
Status(op, ret) ==
  CASE ret.tipo = "validacion" -> 400
    [] ret.tipo = "throw" -> 500
    [] ret.tipo \in {"null", "false"} -> 404
    [] OTHER -> IF op = "POST" THEN 201 ELSE 200

\* a call of lib/database run to its return, nothing else running meanwhile
Ejecutar(paso, fallaEscritura) ==
  IF paso.fin THEN [S |-> paso.S, ret |-> paso.ret]
  ELSE Reanudar(paso.S, paso, fallaEscritura)

\* the handlers as functions of the stores: the stores after the request and
\* what the service call returned
PeticionPOST(S, id, body, falla) ==
  IF ValidarPOST(body) # "ok"
  THEN [S |-> S, ret |-> Ret("validacion", <<>>)]
  ELSE Ejecutar(crearProducto(S, id, body.nombre.s, body.marca.s,
                              body.inventarioInicial.n, falla = "lectura"),
                falla = "escritura")

PeticionGETlista(S, falla) ==
  LET r == leerProductos(S, falla = "lectura")
  IN [S |-> r.S, ret |-> Ret("lista", r.ps)]

PeticionGET(S, id, falla) ==
  Ejecutar(obtenerProductoPorId(S, id, falla = "lectura"), FALSE)

PeticionPATCH(S, id, cantidad, falla) ==
  IF ValidarPATCH(cantidad) # "ok"
  THEN [S |-> S, ret |-> Ret("validacion", <<>>)]
  ELSE Ejecutar(actualizarInventario(S, id, cantidad.n, falla = "lectura"),
                falla = "escritura")

PeticionDELETE(S, id, falla) ==
  Ejecutar(eliminarProducto(S, id, falla = "lectura"), falla = "escritura")

\* --------------------------------------------------------- request slots
Libre ==
  [espera |-> "libre", productos |-> <<>>, id |-> 0, nuevoInventario |-> 0,
   ret |-> Ret("null", <<>>)]

Suspendida(paso) ==
  [espera |-> paso.espera, productos |-> paso.productos, id |-> paso.id,
   nuevoInventario |-> paso.nuevoInventario, ret |-> paso.ret]

Puede(p) ==
  /\ pend[p].espera = "libre"
  /\ concurrente \/ (p = 1 /\ \A q \in Procs : pend[q].espera = "libre")

Aplicar(S) ==
  /\ archivo' = S.archivo
  /\ productosEnMemoria' = S.memoria
  /\ kvValor' = S.kv
  /\ tabla' = S.tabla

\* a call of lib/database made by a handler: it returns, or it is suspended
\* at its await when the backend is remote
Avanzar(p, paso, fallaEscritura) ==
  IF ~paso.fin /\ modo \in {"kv", "supabase"}
  THEN /\ Aplicar(paso.S)
       /\ pend' = [pend EXCEPT ![p] = Suspendida(paso)]
  ELSE /\ Aplicar(Ejecutar(paso, fallaEscritura).S)
       /\ UNCHANGED pend

DentroDelTope(paso) ==
  /\ paso.nuevoInventario <= Entero(MaxInventario)
  /\ \A i \in 1..Len(paso.productos) :
       paso.productos[i].inventarioActual <= Entero(MaxInventario)

\* obtenerClienteKV() / obtenerClienteSupabase() run on a storage access
Acceder == elegido' = IF elegido = "ninguno" THEN modo ELSE elegido

\* Date.now().toString() + Math.random().toString(36).substr(2, 9)
IdsNuevos == IF colisiones THEN Ids ELSE {generados + 1}

\* POST /api/productos
POST(p, body, falla) ==
  /\ Puede(p)
  /\ UNCHANGED <<config, navegador>>
  /\ IF ValidarPOST(body) # "ok"
     THEN UNCHANGED <<archivo, productosEnMemoria, kvValor, tabla, generados,
                      pend, elegido>>
     ELSE /\ generados < MaxProductos
          /\ Acceder
          /\ generados' = generados + 1
          /\ \E id \in IdsNuevos :
               Avanzar(p, crearProducto(Almacenes, id, body.nombre.s,
                                        body.marca.s, body.inventarioInicial.n,
                                        falla = "lectura"),
                       falla = "escritura")

\* GET /api/productos
GETlista(p, falla) ==
  /\ Puede(p)
  /\ UNCHANGED <<config, navegador, generados, pend>>
  /\ Acceder
  /\ Aplicar(PeticionGETlista(Almacenes, falla).S)

\* GET /api/productos/[id]
GET(p, id, falla) ==
  /\ Puede(p)
  /\ UNCHANGED <<config, navegador, generados>>
  /\ Acceder
  /\ Avanzar(p, obtenerProductoPorId(Almacenes, id, falla = "lectura"), FALSE)

\* PATCH /api/productos/[id]
PATCH(p, id, cantidad, falla) ==
  /\ Puede(p)
  /\ UNCHANGED <<config, navegador, generados>>
  /\ IF ValidarPATCH(cantidad) # "ok"
     THEN UNCHANGED <<archivo, productosEnMemoria, kvValor, tabla, pend,
                      elegido>>
     ELSE LET paso == actualizarInventario(Almacenes, id, cantidad.n,
                                           falla = "lectura")
          IN /\ DentroDelTope(paso)
             /\ Acceder
             /\ Avanzar(p, paso, falla = "escritura")

\* DELETE /api/productos/[id]
DELETE(p, id, falla) ==
  /\ Puede(p)
  /\ UNCHANGED <<config, navegador, generados>>
  /\ Acceder
  /\ Avanzar(p, eliminarProducto(Almacenes, id, falla = "lectura"),
             falla = "escritura")

\* the awaited write of a suspended request completes
Continuar(p, falla) ==
  /\ pend[p].espera # "libre"
  /\ UNCHANGED <<config, navegador, generados, elegido>>
  /\ Aplicar(Reanudar(Almacenes, pend[p], falla).S)
  /\ pend' = [pend EXCEPT ![p] = Libre]

\* the environment variables of the remote backends are set or unset while
\* the process runs
CambiarEntorno(kv, supabase) ==
  /\ <<kv, supabase>> # <<kvConfigurado, supabaseConfigurado>>
  /\ kvConfigurado' = kv
  /\ supabaseConfigurado' = supabase
  /\ UNCHANGED <<variante, nodeEnv, concurrente, colisiones, archivo,
                 productosEnMemoria, kvValor, tabla, generados, pend, elegido,
                 navegador>>

\* ------------------------------------------------------- inventory modal
MaxEnVuelo == 2

\* what the user types in the quantity field
Textos ==
  {<<>>, <<"a">>, <<"0">>, <<"-", "1">>, <<"1">>, <<"2">>, <<"1", ".", "0">>,
   <<" ", "1", "u">>}

Digitos == <<"0", "1", "2", "3", "4", "5", "6", "7", "8", "9">>

EsDigito(c) == \E i \in 1..Len(Digitos) : Digitos[i] = c

ValorDe(c) == (CHOOSE i \in 1..Len(Digitos) : Digitos[i] = c) - 1

RECURSIVE PrefijoDeDigitos(_)
PrefijoDeDigitos(s) ==
  IF s # <<>> /\ EsDigito(Head(s))
  THEN <<Head(s)>> \o PrefijoDeDigitos(Tail(s))
  ELSE <<>>

RECURSIVE ValorEntero(_)
ValorEntero(ds) ==
  IF ds = <<>> THEN 0
  ELSE ValorEntero(SubSeq(ds, 1, Len(ds) - 1)) * 10 + ValorDe(ds[Len(ds)])

\* parseFloat: leading blanks skipped, a sign, the longest numeric prefix,
\* NaN when there is none; the fraction is kept to the half unit
parseFloat(texto) ==
  LET t == TrimIzq(texto)
      negativo == t # <<>> /\ Head(t) = "-"
      u == IF t # <<>> /\ Head(t) \in {"-", "+"} THEN Tail(t) ELSE t
      ent == PrefijoDeDigitos(u)
      resto == SubSeq(u, Len(ent) + 1, Len(u))
      frac == IF resto # <<>> /\ Head(resto) = "."
              THEN PrefijoDeDigitos(Tail(resto))
              ELSE <<>>
      mitad == IF frac # <<>> /\ ValorDe(frac[1]) >= 5 THEN 1 ELSE 0
      magnitud == Entero(ValorEntero(ent)) + mitad
  IN IF ent = <<>> /\ frac = <<>>
     THEN [nan |-> TRUE, n |-> 0]
     ELSE [nan |-> FALSE, n |-> IF negativo THEN -magnitud ELSE magnitud]

\* productoSeleccionado = null, tipoOperacion = null
Cerrado ==
  [producto |-> <<>>, tipo |-> "ninguno", cargando |-> FALSE, error |-> FALSE]

\* the modal renders
Abierto(m) == m.producto # <<>> /\ m.tipo # "ninguno"

\* manejarAumentar / manejarDisminuir, then the effect on [producto, tipo]
Abrir(producto, tipo) ==
  [producto |-> <<producto>>, tipo |-> tipo, cargando |-> FALSE,
   error |-> FALSE]

\* manejarConfirmar up to its await: the modal afterwards and the request it
\* sends, if any
manejarConfirmar(m, texto) ==
  LET cantidadNum == parseFloat(texto)
  IN IF ~Abierto(m) THEN [m |-> m, envia |-> <<>>]
     ELSE IF cantidadNum.nan \/ cantidadNum.n <= 0
     THEN [m |-> [m EXCEPT !.error = TRUE], envia |-> <<>>]
     ELSE IF m.tipo = "disminuir"
             /\ cantidadNum.n > m.producto[1].inventarioActual
     THEN [m |-> [m EXCEPT !.error = TRUE], envia |-> <<>>]
     ELSE [m |-> [m EXCEPT !.cargando = TRUE, !.error = FALSE],
           envia |-> <<[id |-> m.producto[1].id,
                        cantidad |-> IF m.tipo = "aumentar"
                                     THEN cantidadNum.n
                                     ELSE -cantidadNum.n]>>]

\* manejarConfirmar after its await: onCerrar() when the request succeeded,
\* the catch block when confirmarOperacion threw
trasRespuesta(m, ok) ==
  IF ok THEN Cerrado ELSE [m EXCEPT !.error = TRUE, !.cargando = FALSE]

\* the user clicks Aumentar or Disminuir on a row of the list the page has
\* just loaded
AbrirModal(i, tipo) ==
  /\ ~Abierto(modal)
  /\ \A p \in Procs : pend[p].espera = "libre"
  /\ i \in 1..Len(Almacen)
  /\ tipo = "disminuir" => Almacen[i].inventarioActual # 0
  /\ modal' = Abrir(Almacen[i], tipo)
  /\ Acceder
  /\ UNCHANGED <<config, archivo, productosEnMemoria, kvValor, tabla,
                 generados, pend, enVuelo>>

\* the user types a quantity and clicks Confirmar
Confirmar(texto) ==
  /\ Abierto(modal)
  /\ ~modal.cargando
  /\ Len(enVuelo) < MaxEnVuelo
  /\ modal' = manejarConfirmar(modal, texto).m
  /\ enVuelo' = enVuelo \o manejarConfirmar(modal, texto).envia
  /\ UNCHANGED <<config, archivo, productosEnMemoria, kvValor, tabla,
                 generados, pend, elegido>>

\* the user clicks Cancelar
Cancelar ==
  /\ Abierto(modal)
  /\ ~modal.cargando
  /\ modal' = Cerrado
  /\ UNCHANGED <<config, archivo, productosEnMemoria, kvValor, tabla,
                 generados, pend, elegido, enVuelo>>

\* the user presses Escape
Escape ==
  /\ Abierto(modal)
  /\ modal' = Cerrado
  /\ UNCHANGED <<config, archivo, productosEnMemoria, kvValor, tabla,
                 generados, pend, elegido, enVuelo>>

\* the server handles a request of the modal and confirmarOperacion gets the
\* answer
Responder(k, falla) ==
  /\ k \in 1..Len(enVuelo)
  /\ \A p \in Procs : pend[p].espera = "libre"
  /\ DentroDelTope(actualizarInventario(Almacenes, enVuelo[k].id,
                                        enVuelo[k].cantidad,
                                        falla = "lectura"))
  /\ LET r == PeticionPATCH(Almacenes, enVuelo[k].id,
                            Num(enVuelo[k].cantidad), falla)
     IN /\ Aplicar(r.S)
        /\ modal' = trasRespuesta(modal, Status("PATCH", r.ret) = 200)
  /\ enVuelo' = Splice(enVuelo, k)
  /\ Acceder
  /\ UNCHANGED <<config, generados, pend>>

\* ------------------------------------------------------------------ Init
TodasLasConfiguraciones ==
  {c \in [variante : {"archivo", "memoria", "kv", "supabase"},
          nodeEnv : {"development", "production"},
          kv : BOOLEAN, supabase : BOOLEAN] :
     c.variante = "archivo" => c.nodeEnv = "development"}

\* each version deployed with the credentials of its own backend, or none
Configuraciones ==
  {c \in TodasLasConfiguraciones :
     /\ c.variante # "kv" => ~c.kv
     /\ c.variante # "supabase" => ~c.supabase}

InitDe(configuraciones, conc, col) ==
  /\ \E c \in configuraciones :
       /\ variante = c.variante
       /\ nodeEnv = c.nodeEnv
       /\ kvConfigurado = c.kv
       /\ supabaseConfigurado = c.supabase
  /\ concurrente = conc
  /\ colisiones = col
  /\ archivo = <<>>
  /\ productosEnMemoria = <<>>
  /\ kvValor = <<>>
  /\ tabla = {}
  /\ generados = 0
  /\ pend = [p \in Procs |-> Libre]
  /\ elegido = "ninguno"
  /\ modal = Cerrado
  /\ enVuelo = <<>>

InitCon(conc, col) == InitDe(Configuraciones, conc, col)

Init == InitCon(FALSE, FALSE)

InitConcurrente == InitCon(TRUE, FALSE)

Next ==
  \/ \E p \in Procs, body \in Cuerpos, f \in Fallas : POST(p, body, f)
  \/ \E p \in Procs, f \in Fallas : GETlista(p, f)
  \/ \E p \in Procs, id \in Ids, f \in Fallas : GET(p, id, f)
  \/ \E p \in Procs, id \in Ids, c \in Cantidades, f \in Fallas :
       PATCH(p, id, c, f)
  \/ \E p \in Procs, id \in Ids, f \in Fallas : DELETE(p, id, f)
  \/ \E p \in Procs, f \in BOOLEAN : Continuar(p, f)

\* requests that overlap: plain bodies and whole quantities
NextConcurrente ==
  \/ \E p \in Procs, body \in CuerposPlanos, f \in Fallas : POST(p, body, f)
  \/ \E p \in Procs, f \in Fallas : GETlista(p, f)
  \/ \E p \in Procs, id \in Ids, f \in Fallas : GET(p, id, f)
  \/ \E p \in Procs, id \in Ids, c \in CantidadesEnteras, f \in Fallas :
       PATCH(p, id, c, f)
  \/ \E p \in Procs, id \in Ids, f \in Fallas : DELETE(p, id, f)
  \/ \E p \in Procs, f \in BOOLEAN : Continuar(p, f)

Spec == Init /\ [][Next]_vars

SpecConcurrente == InitConcurrente /\ [][NextConcurrente]_vars

\* requests one at a time, with an id generator that may repeat an identifier
InitColisiones == InitCon(FALSE, TRUE)

SpecColisiones == InitColisiones /\ [][NextConcurrente]_vars

\* requests one at a time, in an environment that may hold any credentials
\* and may change
InitEntorno == InitDe(TodasLasConfiguraciones, FALSE, FALSE)

NextEntorno ==
  \/ NextConcurrente
  \/ \E kv \in BOOLEAN, supabase \in BOOLEAN : CambiarEntorno(kv, supabase)

SpecEntorno == InitEntorno /\ [][NextEntorno]_vars

\* one browser page with the inventory modal, and another client whose
\* requests the backend answers
NextModal ==
  \/ \E body \in CuerposPlanos : POST(1, body, "ninguna")
  \/ \E id \in Ids, c \in CantidadesEnteras : PATCH(1, id, c, "ninguna")
  \/ \E id \in Ids : DELETE(1, id, "ninguna")
  \/ Continuar(1, FALSE)
  \/ \E i \in Ids, tipo \in {"aumentar", "disminuir"} : AbrirModal(i, tipo)
  \/ \E texto \in Textos : Confirmar(texto)
  \/ Cancelar
  \/ Escape
  \/ \E k \in 1..MaxEnVuelo, f \in Fallas : Responder(k, f)

\* the file version in development and the relational version deployed with
\* its credentials
InitModal ==
  InitDe({c \in Configuraciones :
            \/ c.variante = "archivo"
            \/ c.variante = "supabase" /\ c.supabase
                 /\ c.nodeEnv = "production"},
         FALSE, FALSE)

SpecModal == InitModal /\ [][NextModal]_vars

\* ------------------------------------------------------------ properties
Max0(n) == IF n > 0 THEN n ELSE 0

Deltas == {Entero(k) : k \in (-(MaxInventario + 1))..(MaxInventario + 1)}

TodosLosCuerpos ==
  [nombre : Nombres, marca : Marcas, inventarioInicial : Inventarios]

Contiene(ps, p) == \E i \in 1..Len(ps) : ps[i] = p

InventarioDe(ps, id) == ps[IndiceDe(ps, id)].inventarioActual

SinNegativos(ps) == \A i \in 1..Len(ps) : ps[i].inventarioActual >= 0

\* the identifier the next create gets
IdNuevo == generados + 1

\* C1: in every storage variant, whatever creates (initial stock >= 0),
\* integer adjustments and deletes have run and however they interleaved,
\* every stored product has inventarioActual >= 0.
C1_InventarioNoNegativo ==
  /\ SinNegativos(archivo)
  /\ SinNegativos(productosEnMemoria)
  /\ SinNegativos(kvValor)
  /\ \A f \in tabla : f.inventarioActual >= 0
  /\ SinNegativos(Almacen)

\* two requests overlap; one is an adjustment of a product whose stored stock
\* is positive and whose computed stock was brought to 0
C1_Witness ==
  \E p \in Procs, q \in Procs :
     /\ p # q
     /\ pend[q].espera # "libre"
     /\ pend[p].espera = "guardar"
     /\ pend[p].ret.tipo = "producto"
     /\ pend[p].ret.valor[1].inventarioActual = 0
     /\ \E i \in 1..Len(kvValor) :
          /\ kvValor[i].id = pend[p].ret.valor[1].id
          /\ kvValor[i].inventarioActual > 0

\* C2: for every stored product with stock s and every integer delta d, the
\* adjustment succeeds, and the product it returns and the product it stores
\* both have stock max(0, s + d); add-then-clamp and Math.max agree on every
\* (s, d).
C2_AjusteRecortado ==
  /\ \A id \in IdsDe(Almacen), d \in Deltas :
       LET s == InventarioDe(Almacen, id)
           r == PeticionPATCH(Almacenes, id, Num(d), "ninguna")
       IN /\ r.ret.tipo = "producto"
          /\ r.ret.valor[1].id = id
          /\ r.ret.valor[1].inventarioActual = Max0(s + d)
          /\ id \in IdsDe(Leer(r.S))
          /\ InventarioDe(Leer(r.S), id) = Max0(s + d)
  /\ \A s \in 0..Entero(MaxInventario),
        d \in (-Entero(MaxInventario + 1))..Entero(MaxInventario + 1) :
       SumarYRecortar(s, d) = MathMax0(s, d)

\* a row of the relational table with positive stock, and a delta below -s
\* whose adjustment returns and stores stock 0
C2_Witness ==
  /\ modo = "supabase"
  /\ \E id \in IdsDe(Almacen), d \in Deltas :
       LET s == InventarioDe(Almacen, id)
           r == PeticionPATCH(Almacenes, id, Num(d), "ninguna")
       IN /\ s > 0
          /\ d < -s
          /\ r.ret.tipo = "producto"
          /\ r.ret.valor[1].inventarioActual = 0
          /\ InventarioDe(Leer(r.S), id) = 0

\* C3: for a stored id, two deletes in a row return true and then false, in
\* whichever storage variant is active.
C3_EliminarDosVeces ==
  \A id \in IdsDe(Almacen) :
     LET r1 == PeticionDELETE(Almacenes, id, "ninguna")
         r2 == PeticionDELETE(r1.S, id, "ninguna")
     IN r1.ret.tipo = "true" /\ r2.ret.tipo = "false"

\* C4: in whichever variant and configuration is active, a create that
\* returns product p is followed by a get of p.id that returns a product
\* with the same name, brand and stock.
C4_CrearLuegoObtener ==
  \A body \in CuerposPlanos :
     LET r1 == PeticionPOST(Almacenes, IdNuevo, body, "ninguna")
         r2 == PeticionGET(r1.S, IdNuevo, "ninguna")
     IN r1.ret.tipo = "producto" =>
          /\ r2.ret.tipo = "producto"
          /\ r2.ret.valor[1].nombre = body.nombre.s
          /\ r2.ret.valor[1].marca = body.marca.s
          /\ r2.ret.valor[1].inventarioActual = body.inventarioInicial.n

\* C5: an adjustment of an id that is not stored returns not-found, creates
\* no record and leaves every store and the stored collection as they were.
C5_AjusteDeAusente ==
  \A id \in (Ids \cup {IdNuevo}) \ IdsDe(Almacen),
     c \in {x \in Cantidades : x.t = "number"} :
     LET r == PeticionPATCH(Almacenes, id, c, "ninguna")
     IN /\ r.ret.tipo = "null"
        /\ Leer(r.S) = Almacen
        /\ id \notin IdsDe(Leer(r.S))
        /\ r.S.archivo = archivo
        /\ r.S.kv = kvValor
        /\ r.S.tabla = tabla

\* an identifier that was given out is no longer stored while another
\* product is, and its adjustment answers not-found
C5_Witness ==
  \E id \in Ids :
     /\ id <= generados
     /\ id \notin IdsDe(Almacen)
     /\ Almacen # <<>>
     /\ PeticionPATCH(Almacenes, id, Num(2), "ninguna").ret.tipo = "null"
     /\ Leer(PeticionPATCH(Almacenes, id, Num(2), "ninguna").S) = Almacen

\* C6: after three creates in a row that each return their product, the list
\* contains the three products, in every storage variant.
C6_ListaTrasTresAltas ==
  \A a \in CuerposPlanos, b \in CuerposPlanos, c \in CuerposPlanos :
     LET r1 == PeticionPOST(Almacenes, IdNuevo, a, "ninguna")
         r2 == PeticionPOST(r1.S, IdNuevo + 1, b, "ninguna")
         r3 == PeticionPOST(r2.S, IdNuevo + 2, c, "ninguna")
         lista == PeticionGETlista(r3.S, "ninguna").ret.valor
     IN (r1.ret.tipo = "producto" /\ r2.ret.tipo = "producto"
           /\ r3.ret.tipo = "producto") =>
          /\ Contiene(lista, r1.ret.valor[1])
          /\ Contiene(lista, r2.ret.valor[1])
          /\ Contiene(lista, r3.ret.valor[1])

\* C7: a product created with stock s0 and adjusted by d1 and then d2 has
\* stock max(0, previous + di) after each step; the delete that follows
\* returns true and the get after it returns not-found.
C7_CicloDeVida ==
  \A body \in CuerposPlanos, d1 \in Deltas, d2 \in Deltas :
     LET s0 == body.inventarioInicial.n
         r0 == PeticionPOST(Almacenes, IdNuevo, body, "ninguna")
         r1 == PeticionPATCH(r0.S, IdNuevo, Num(d1), "ninguna")
         r2 == PeticionPATCH(r1.S, IdNuevo, Num(d2), "ninguna")
         r3 == PeticionDELETE(r2.S, IdNuevo, "ninguna")
         r4 == PeticionGET(r3.S, IdNuevo, "ninguna")
     IN r0.ret.tipo = "producto" =>
          /\ r1.ret.tipo = "producto"
          /\ r1.ret.valor[1].inventarioActual = Max0(s0 + d1)
          /\ r2.ret.tipo = "producto"
          /\ r2.ret.valor[1].inventarioActual = Max0(Max0(s0 + d1) + d2)
          /\ r3.ret.tipo = "true"
          /\ r4.ret.tipo = "null"

\* a create request with an empty name, an empty brand or a negative stock
Rechazable(body) ==
  \/ body.nombre = Str(<<>>)
  \/ body.marca = Str(<<>>)
  \/ body.inventarioInicial.t = "number" /\ body.inventarioInicial.n < 0

\* C8: a create request with an empty name, an empty brand or a negative
\* initial stock is answered with a validation error (400), whatever the
\* backend does, and no store changes.
C8_AltaRechazada ==
  \A body \in {b \in TodosLosCuerpos : Rechazable(b)}, f \in Fallas :
     LET r == PeticionPOST(Almacenes, IdNuevo, body, f)
     IN /\ r.ret.tipo = "validacion"
        /\ Status("POST", r.ret) = 400
        /\ r.S = Almacenes
        /\ Leer(r.S) = Almacen

\* products are stored, and a create with stock -1 and otherwise plain fields
\* is answered 400 and leaves them as they are
C8_Witness ==
  /\ Len(Almacen) = MaxProductos
  /\ \E body \in Cuerpos :
       /\ body.inventarioInicial = Num(-2)
       /\ body.nombre = Str(<<"L">>)
       /\ Status("POST", PeticionPOST(Almacenes, IdNuevo, body, "ninguna").ret)
            = 400
       /\ PeticionPOST(Almacenes, IdNuevo, body, "ninguna").S = Almacenes

TodasLasFilas ==
  {archivo[i] : i \in 1..Len(archivo)}
    \cup {productosEnMemoria[i] : i \in 1..Len(productosEnMemoria)}
    \cup {kvValor[i] : i \in 1..Len(kvValor)}
    \cup tabla

\* C9: after any sequence of create requests that POST accepts, every stored
\* product has a name and a brand that are non-empty after trimming
\* whitespace.
C9_NombreYMarcaNoVacios ==
  \A f \in TodasLasFilas : Trim(f.nombre) # <<>> /\ Trim(f.marca) # <<>>

\* C10: every stored product's stock is an integer, whatever accepted create
\* and adjust requests have run.
C10_InventarioEntero ==
  \A f \in TodasLasFilas : EsEntero(f.inventarioActual)

SinRepetidos(ps) ==
  \A i \in 1..Len(ps), j \in 1..Len(ps) : i # j => ps[i].id # ps[j].id

\* C11: in every reachable state of every storage variant no two stored
\* products have the same id, also when the id generator gives out an
\* identifier that is already in use.
C11_IdsUnicos ==
  /\ SinRepetidos(archivo)
  /\ SinRepetidos(productosEnMemoria)
  /\ SinRepetidos(kvValor)
  /\ \A f \in tabla, g \in tabla : f.id = g.id => f = g
  /\ SinRepetidos(Almacen)

\* C12: an adjustment of id changes nothing but the stock of the product
\* with that id: the products read afterwards are as many, with the same id,
\* name and brand each, and the same stock for every other id, whatever the
\* quantity and whatever the backend does, in every storage variant.
C12_AjusteSoloCambiaSuInventario ==
  \A id \in Ids, c \in {x \in Cantidades : x.t = "number"}, f \in Fallas :
     LET antes == Almacen
         despues == Leer(PeticionPATCH(Almacenes, id, c, f).S)
     IN /\ Len(despues) = Len(antes)
        /\ \A i \in 1..Len(antes) :
             /\ despues[i].id = antes[i].id
             /\ despues[i].nombre = antes[i].nombre
             /\ despues[i].marca = antes[i].marca
             /\ antes[i].id # id =>
                  despues[i].inventarioActual = antes[i].inventarioActual

\* two products are stored and an adjustment of one of them changes its stock
C12_Witness ==
  /\ Len(Almacen) = 2
  /\ \E id \in IdsDe(Almacen) :
       LET r == PeticionPATCH(Almacenes, id, Num(2), "ninguna")
       IN /\ r.ret.tipo = "producto"
          /\ InventarioDe(Leer(r.S), id) # InventarioDe(Almacen, id)
          /\ \E otro \in IdsDe(Almacen) :
               /\ otro # id
               /\ InventarioDe(Leer(r.S), otro) = InventarioDe(Almacen, otro)

UnCuerpo ==
  [nombre |-> Str(<<"L">>), marca |-> Str(<<"D">>),
   inventarioInicial |-> Num(0)]

\* the store in which a create that succeeds leaves its product
AlmacenUsado ==
  LET r == PeticionPOST(Almacenes, IdNuevo, UnCuerpo, "ninguna")
  IN CASE r.S.tabla # tabla -> "relacional"
       [] r.S.kv # kvValor -> "kv"
       [] r.S.archivo # archivo \/ r.S.memoria # productosEnMemoria -> "local"
       [] OTHER -> "ninguno"

\* C13: with the relational credentials present the relational store is
\* used; without them but with the key-value credentials the key-value store
\* is used; with neither the local file or memory is used.
C13_OrdenDeSondeo ==
  /\ supabaseConfigurado => AlmacenUsado = "relacional"
  /\ (~supabaseConfigurado /\ kvConfigurado) => AlmacenUsado = "kv"
  /\ (~supabaseConfigurado /\ ~kvConfigurado) => AlmacenUsado = "local"

\* C14: once a storage operation has run, every later operation takes the
\* branch the first one took, also when the credentials have changed since.
C14_ElegidoUnaVez == elegido # "ninguno" => modo = elegido

\* C15: for a stored id, get, adjust and delete never answer not-found
\* (null, null, false), whatever the backend does: a backend failure is an
\* outcome of its own.
C15_NoEncontradoSoloSiAusente ==
  \A id \in IdsDe(Almacen), f \in Fallas, c \in CantidadesEnteras :
     /\ PeticionGET(Almacenes, id, f).ret.tipo # "null"
     /\ PeticionPATCH(Almacenes, id, c, f).ret.tipo # "null"
     /\ PeticionDELETE(Almacenes, id, f).ret.tipo # "false"

\* the insert of a create is refused: the backend fails, or the id is taken,
\* or the stock does not fit the column
InsertRechazado(id, body, f) ==
  \/ f = "lectura"
  \/ FilasCon(Almacenes, id) # {}
  \/ ~EsEntero(body.inventarioInicial.n)

\* C16: in the relational variant a create whose insert the backend refuses
\* raises an error (500), returns no product, and leaves the table as it was.
C16_AltaRechazadaPorLaTabla ==
  modo = "supabase" =>
    \A body \in {b \in TodosLosCuerpos : ValidarPOST(b) = "ok"},
       id \in Ids \cup {IdNuevo}, f \in Fallas :
       InsertRechazado(id, body, f) =>
         LET r == PeticionPOST(Almacenes, id, body, f)
         IN /\ r.ret.tipo = "throw"
            /\ Status("POST", r.ret) = 500
            /\ r.S.tabla = tabla

\* the table holds rows and a create whose insert fails raises and leaves them
C16_Witness ==
  /\ modo = "supabase"
  /\ tabla # {}
  /\ PeticionPOST(Almacenes, IdNuevo, UnCuerpo, "lectura").ret.tipo = "throw"
  /\ PeticionPOST(Almacenes, IdNuevo, UnCuerpo, "lectura").S.tabla = tabla

\* C17: in the relational variant a backend error while listing is an error
\* outcome, not a list.
C17_ErrorAlListar ==
  modo = "supabase" =>
    PeticionGETlista(Almacenes, "lectura").ret.tipo # "lista"

\* a read of the backend happens: always in the file, key-value and fallback
\* branches, and in the memory version when the array is empty
LeeDelRespaldo ==
  \/ modo \in {"archivo", "kv", "respaldo"}
  \/ modo = "memoria" /\ productosEnMemoria = <<>>

ProductosDePrueba ==
  {Producto(id, <<"L">>, <<"D">>, inv) : id \in Ids, inv \in {0, Entero(1)}}

Colecciones ==
  {<<>>} \cup {<<a>> : a \in ProductosDePrueba}
    \cup {ab \in ProductosDePrueba \X ProductosDePrueba : ab[1].id # ab[2].id}

ConjuntoDe(ps) == {ps[i] : i \in 1..Len(ps)}

\* guardarProductos(P) under the backend faults of its branch
GuardarTodo(S, P, fallaDelete, fallaEscritura) ==
  IF modo = "supabase"
  THEN guardarProductosEnSupabase(S, P, fallaDelete, fallaEscritura)
  ELSE guardarProductos(S, P, fallaEscritura)

\* C19: whenever guardarProductos(P) returns without raising, the read that
\* follows returns exactly the products of P, in every storage variant.
C19_GuardarReemplazaTodo ==
  \A P \in Colecciones, fd \in BOOLEAN, fe \in BOOLEAN :
     LET g == GuardarTodo(Almacenes, P, fd, fe)
     IN ~g.error =>
          /\ ConjuntoDe(Leer(g.S)) = ConjuntoDe(P)
          /\ Len(Leer(g.S)) = Len(P)

\* C20: when two adjustments of the same stored product both read the
\* collection before either writes it back, both return their product and
\* the stored stock is max(0, s + d) for the delta d of the one that wrote
\* last; the delta of the other is lost (key-value and local variants).
C20_ActualizacionPerdida ==
  modo # "supabase" =>
    \A id \in IdsDe(Almacen), c1 \in CantidadesEnteras,
       c2 \in CantidadesEnteras :
       LET s == InventarioDe(Almacen, id)
           l1 == actualizarInventario(Almacenes, id, c1.n, FALSE)
           l2 == actualizarInventario(l1.S, id, c2.n, FALSE)
           e1 == Reanudar(l2.S, l1, FALSE)
           e2 == Reanudar(e1.S, l2, FALSE)
       IN /\ e1.ret.tipo = "producto"
          /\ e1.ret.valor[1].inventarioActual = Max0(s + c1.n)
          /\ e2.ret.tipo = "producto"
          /\ e2.ret.valor[1].inventarioActual = Max0(s + c2.n)
          /\ InventarioDe(Leer(e2.S), id) = Max0(s + c2.n)

\* two adjustments of the same product are suspended before their writes,
\* both computed from the collection that is still stored, with different
\* results
C20_Witness ==
  /\ modo = "kv"
  /\ pend[1].espera = "guardar"
  /\ pend[2].espera = "guardar"
  /\ pend[1].ret.tipo = "producto"
  /\ pend[2].ret.tipo = "producto"
  /\ pend[1].ret.valor[1].id = pend[2].ret.valor[1].id
  /\ pend[1].ret.valor[1].id \in IdsDe(kvValor)
  /\ Len(pend[1].productos) = Len(kvValor)
  /\ Len(pend[2].productos) = Len(kvValor)
  /\ pend[1].ret.valor[1].inventarioActual
       # pend[2].ret.valor[1].inventarioActual
  /\ InventarioDe(kvValor, pend[1].ret.valor[1].id)
       \notin {pend[1].ret.valor[1].inventarioActual,
               pend[2].ret.valor[1].inventarioActual}

EnReposo == \A p \in Procs : pend[p].espera = "libre"

\* C22: the inventory modal sends an adjustment only when the entered
\* quantity q is a number > 0, +q for an increase and -q for a decrease, a
\* decrease only when q is at most the stock shown in the modal; and a
\* decrease the modal has sent, served on the stored collection, subtracts
\* its quantity whole: the service does not clamp the stock at zero.
C22_ModalNuncaRecorta ==
  /\ \A texto \in Textos :
       LET r == manejarConfirmar(modal, texto)
           q == parseFloat(texto)
       IN r.envia # <<>> =>
            /\ ~q.nan
            /\ q.n > 0
            /\ r.envia[1].id = modal.producto[1].id
            /\ modal.tipo = "aumentar" => r.envia[1].cantidad = q.n
            /\ modal.tipo = "disminuir" =>
                 /\ r.envia[1].cantidad = -q.n
                 /\ q.n <= modal.producto[1].inventarioActual
  /\ EnReposo =>
       \A k \in 1..Len(enVuelo) :
          LET r == PeticionPATCH(Almacenes, enVuelo[k].id,
                                 Num(enVuelo[k].cantidad), "ninguna")
          IN (enVuelo[k].cantidad < 0 /\ r.ret.tipo = "producto") =>
               r.ret.valor[1].inventarioActual =
                 InventarioDe(Almacen, enVuelo[k].id) + enVuelo[k].cantidad

\* the ids of a sequence of products, in its order
SecuenciaIds(ps) == [i \in 1..Len(ps) |-> ps[i].id]

Ascendente(ps) ==
  \A i \in 1..Len(ps), j \in 1..Len(ps) : i < j => ps[i].id < ps[j].id

\* C23: outside the relational variant the list is in creation order: a
\* create leaves the listed products as they were and lists the new one, if
\* at all, after them; an adjustment keeps every product at its position; a
\* delete takes its product out and keeps the others in their order.  In the
\* relational variant the list is in ascending id order, before and after
\* every create, adjustment and delete.
C23_OrdenDeLaLista ==
  /\ modo # "supabase" =>
       /\ \A id \in IdsNuevos, body \in CuerposPlanos :
            LET r == PeticionPOST(Almacenes, id, body, "ninguna")
            IN r.ret.tipo = "producto" =>
                 Leer(r.S) \in {Almacen, Almacen \o r.ret.valor}
       /\ \A id \in IdsDe(Almacen), d \in Deltas :
            SecuenciaIds(Leer(PeticionPATCH(Almacenes, id, Num(d),
                                            "ninguna").S))
              = SecuenciaIds(Almacen)
       /\ \A id \in IdsDe(Almacen) :
            \E i \in 1..Len(Almacen) :
               /\ Almacen[i].id = id
               /\ Leer(PeticionDELETE(Almacenes, id, "ninguna").S)
                    = [j \in 1..(Len(Almacen) - 1) |->
                         IF j < i THEN Almacen[j] ELSE Almacen[j + 1]]
  /\ modo = "supabase" =>
       /\ Ascendente(Almacen)
       /\ \A id \in IdsNuevos, body \in CuerposPlanos :
            Ascendente(Leer(PeticionPOST(Almacenes, id, body, "ninguna").S))
       /\ \A id \in IdsDe(Almacen), d \in Deltas :
            /\ Ascendente(Leer(PeticionPATCH(Almacenes, id, Num(d),
                                             "ninguna").S))
            /\ Ascendente(Leer(PeticionDELETE(Almacenes, id, "ninguna").S))

\* the file holds the product created second before the one created first
\* by id, and an adjustment of it leaves it first
C23_Witness ==
  /\ modo = "archivo"
  /\ SecuenciaIds(Almacen) = <<2, 1>>
  /\ SecuenciaIds(Leer(PeticionPATCH(Almacenes, 2, Num(2), "ninguna").S))
       = <<2, 1>>
  /\ SecuenciaIds(Leer(PeticionDELETE(Almacenes, 2, "ninguna").S)) = <<1>>

\* C24: a create only adds: every product stored before it is stored after
\* it with the same name, brand and stock, in every storage variant, whether
\* the read inside crearProducto answers or fails soft.
C24_CrearSoloAgrega ==
  \A body \in CuerposPlanos, falla \in {"ninguna", "lectura"} :
     LET r == PeticionPOST(Almacenes, IdNuevo, body, falla)
     IN \A i \in 1..Len(Almacen) : Contiene(Leer(r.S), Almacen[i])

\* C25: while a create or an adjustment of one request is suspended at its
\* write, a delete of a stored id by another request that returns true takes
\* the product out for good: it is not listed after the suspended request
\* has completed either.
C25_BorradoNoVuelve ==
  \A p \in Procs, q \in Procs :
     (p # q /\ pend[p].espera # "libre" /\ pend[q].espera = "libre") =>
       \A id \in IdsDe(Almacen) :
          LET d == PeticionDELETE(Almacenes, id, "ninguna")
              r == Reanudar(d.S, pend[p], FALSE)
          IN d.ret.tipo = "true" =>
               /\ id \notin IdsDe(Leer(d.S))
               /\ id \notin IdsDe(Leer(r.S))

\* C26: in the relational variant, for a stored product with stock s and
\* deltas d1 >= 0 and d2 >= 0, two adjustments that both return a product
\* leave the stored stock at s + d1 + d2 in every order of their select and
\* update statements: one after the other, and both selects before both
\* updates.
C26_AjustesConcurrentes ==
  (modo = "supabase" /\ EnReposo) =>
    \A id \in IdsDe(Almacen), d1 \in Deltas, d2 \in Deltas :
       (d1 >= 0 /\ d2 >= 0) =>
         LET s == InventarioDe(Almacen, id)
             select1 == actualizarInventario(Almacenes, id, d1, FALSE)
             select2 == actualizarInventario(Almacenes, id, d2, FALSE)
             update2 == Reanudar(Almacenes, select2, FALSE)
             update1 == Reanudar(update2.S, select1, FALSE)
             uno == PeticionPATCH(Almacenes, id, Num(d1), "ninguna")
             dos == PeticionPATCH(uno.S, id, Num(d2), "ninguna")
         IN /\ (uno.ret.tipo = "producto" /\ dos.ret.tipo = "producto") =>
                 InventarioDe(Leer(dos.S), id) = s + d1 + d2
            /\ (update2.ret.tipo = "producto"
                  /\ update1.ret.tipo = "producto") =>
                 InventarioDe(Leer(update1.S), id) = s + d1 + d2

\* C27: in the in-memory variant, after guardarProductos(P) the reads that
\* follow return exactly P, whatever the mirror file holds and whether or not
\* the mirror write succeeded; after the delete of the only product the list
\* is empty.
C27_MemoriaEsLaFuente ==
  modo = "memoria" =>
    /\ \A P \in Colecciones, falla \in BOOLEAN :
         LET g == guardarProductos(Almacenes, P, falla)
             l1 == leerProductos(g.S, FALSE)
             l2 == leerProductos(l1.S, FALSE)
         IN l1.ps = P /\ l2.ps = P
    /\ \A falla \in Fallas :
         Len(Almacen) = 1 =>
           LET d == PeticionDELETE(Almacenes, Almacen[1].id, falla)
           IN d.ret.tipo = "true" => Leer(d.S) = <<>>

\* C28: a delete of a stored id returns true, removes the one record with
\* that id and leaves every other product as it was; a delete of an id that
\* is not stored returns false and leaves the stored collection as it was.
C28_EliminarSoloElSuyo ==
  /\ \A id \in IdsDe(Almacen) :
       LET d == PeticionDELETE(Almacenes, id, "ninguna")
       IN /\ d.ret.tipo = "true"
          /\ Len(Leer(d.S)) = Len(Almacen) - 1
          /\ id \notin IdsDe(Leer(d.S))
          /\ \A i \in 1..Len(Almacen) :
               Almacen[i].id # id => Contiene(Leer(d.S), Almacen[i])
  /\ \A id \in (Ids \cup {IdNuevo}) \ IdsDe(Almacen) :
       LET d == PeticionDELETE(Almacenes, id, "ninguna")
       IN d.ret.tipo = "false" /\ Leer(d.S) = Almacen

\* C29: in the file, key-value and relational variants, a create, an
\* adjustment, a delete or a guardarProductos call that raises because the
\* backend write failed leaves the stored collection as it was before the
\* call.
C29_ErrorSinEscrituraParcial ==
  modo \in {"archivo", "kv", "supabase"} =>
    /\ \A body \in CuerposPlanos :
         LET r == PeticionPOST(Almacenes, IdNuevo, body, "escritura")
         IN r.ret.tipo = "throw" => Leer(r.S) = Almacen
    /\ \A id \in IdsDe(Almacen), d \in Deltas :
         LET r == PeticionPATCH(Almacenes, id, Num(d), "escritura")
         IN r.ret.tipo = "throw" => Leer(r.S) = Almacen
    /\ \A id \in IdsDe(Almacen) :
         LET r == PeticionDELETE(Almacenes, id, "escritura")
         IN r.ret.tipo = "throw" => Leer(r.S) = Almacen
    /\ \A P \in Colecciones, fd \in BOOLEAN :
         LET g == GuardarTodo(Almacenes, P, fd, TRUE)
         IN g.error => Leer(g.S) = Almacen

\* C30: at most one adjustment request of the modal is in flight: while one
\* is, an open modal has its confirm disabled; and when the request of an
\* open modal fails, the modal stays open, shows the error and accepts a new
\* confirm.
C30_UnaPeticionALaVez ==
  /\ Len(enVuelo) <= 1
  /\ (enVuelo # <<>> /\ Abierto(modal)) => modal.cargando
  /\ (enVuelo # <<>> /\ Abierto(modal)) =>
       LET m == trasRespuesta(modal, FALSE)
       IN Abierto(m) /\ m.error /\ ~m.cargando /\ m.producto = modal.producto

====
